---------------------------- MODULE Spec2Model ----------------------------
(***************************************************************************)
(* Model of app.py, the COVID-19 dashboard script.  One execution of the   *)
(* script (a Streamlit render pass) is a sequence of stages; each stage is *)
(* one action.  A table is a set of column names and a sequence of rows,   *)
(* a row maps each column to a cell as pandas.read_csv delivers it.        *)
(*                                                                         *)
(* pandas is modelled with the semantics of its 2.x releases, Python with  *)
(* those of 3.11.  Where the outcome of a library call depends on the      *)
(* installed build (the order an unstable sort gives equal values, a pie   *)
(* chart of zeros, a seaborn plot of an empty frame) the model allows      *)
(* every outcome.  Where a definition is a CASE without OTHER, the inputs  *)
(* no arm covers are outside the model: it says nothing about them.  A     *)
(* plotting call is otherwise opaque; the values of the correlation matrix *)
(* (reals) are not modelled.                                               *)
(***************************************************************************)
EXTENDS Integers, Sequences, FiniteSets, TLC

(***************************************************************************)
(* Bounds of the model.                                                    *)
(***************************************************************************)
MaxRows == 3        \* rows of a table of the data family
TopRows == 6        \* rows of a table of the ranking family
MaxAbsent == 2      \* expected columns absent from a table of the column family
MaxPresent == 2     \* columns of a sparse table of the column family
MaxAnchor == 40     \* multiples of each unit among the inputs of format_number

(***************************************************************************)
(* Characters and strings.  A string is a sequence of characters; a        *)
(* character is written as itself, or as U+xxxx when it lies outside       *)
(* ASCII.  Alphabet lists the characters of the model by code point.       *)
(***************************************************************************)
DigitChars == <<"0", "1", "2", "3", "4", "5", "6", "7", "8", "9">>
ArabicIndicDigits == <<"U+0660", "U+0661", "U+0662", "U+0663", "U+0664",
                       "U+0665", "U+0666", "U+0667", "U+0668", "U+0669">>
UpperLetters == <<"A", "B", "C", "D", "E", "F", "G", "H", "I", "J", "K", "L", "M",
                  "N", "O", "P", "Q", "R", "S", "T", "U", "V", "W", "X", "Y", "Z">>
LowerLetters == <<"a", "b", "c", "d", "e", "f", "g", "h", "i", "j", "k", "l", "m",
                  "n", "o", "p", "q", "r", "s", "t", "u", "v", "w", "x", "y", "z">>

Alphabet ==
    <<"\t", "\n", " ", "#", "+", "-", ".", "/">> \o DigitChars \o <<"<", ">">>
    \o UpperLetters \o <<"_">> \o LowerLetters \o <<"U+00A0">> \o ArabicIndicDigits

\* The position of a character in code point order.
CharRank(ch) == CHOOSE i \in 1..Len(Alphabet) : Alphabet[i] = ch

RECURSIVE StrLess(_, _)
\* a < b for two Python strs: by code point, a proper prefix first.
StrLess(a, b) ==
    IF b = <<>> THEN FALSE
    ELSE IF a = <<>> THEN TRUE
    ELSE IF Head(a) = Head(b) THEN StrLess(Tail(a), Tail(b))
    ELSE CharRank(Head(a)) < CharRank(Head(b))

\* A str with its ASCII letters in lower case.
LowerStr(q) ==
    LET Lower(ch) ==
            IF \E i \in 1..Len(UpperLetters) : UpperLetters[i] = ch
            THEN LowerLetters[CHOOSE i \in 1..Len(UpperLetters) : UpperLetters[i] = ch]
            ELSE ch
    IN  [i \in 1..Len(q) |-> Lower(q[i])]

\* The characters str.isspace() holds of, which int() and float() strip.
WhitespaceChars == {"\t", "\n", " ", "U+00A0"}

\* The characters the C tokenizer of read_csv skips around a number.
CsvWhitespace == {"\t", "\n", " "}

DigitSet == {DigitChars[i] : i \in 1..10}
DecimalDigits == DigitSet \cup {ArabicIndicDigits[i] : i \in 1..10}

DigitChar(d) == DigitChars[d + 1]

\* The value of a decimal digit, ASCII or not.
DigitValue(ch) ==
    IF ch \in DigitSet THEN (CHOOSE i \in 1..10 : DigitChars[i] = ch) - 1
    ELSE (CHOOSE i \in 1..10 : ArabicIndicDigits[i] = ch) - 1

RECURSIVE NatToStr(_)
NatToStr(n) ==
    IF n < 10 THEN <<DigitChar(n)>>
    ELSE NatToStr(n \div 10) \o <<DigitChar(n % 10)>>

\* str(n) of a Python int.
IntToStr(n) == IF n < 0 THEN <<"-">> \o NatToStr(-n) ELSE NatToStr(n)

RECURSIVE StripLeft(_, _)
\* q without the characters of W at its start.
StripLeft(q, W) ==
    IF q # <<>> /\ Head(q) \in W THEN StripLeft(Tail(q), W) ELSE q

RECURSIVE StripRight(_, _)
StripRight(q, W) ==
    IF q # <<>> /\ q[Len(q)] \in W
    THEN StripRight(SubSeq(q, 1, Len(q) - 1), W)
    ELSE q

\* ASCII digits, and one at least.
AsciiDigits(q) == Len(q) > 0 /\ \A i \in 1..Len(q) : q[i] \in DigitSet

\* The digits of a Python literal: decimal digits, single underscores
\* allowed between two digits.
IsDigitGroup(q) ==
    /\ Len(q) > 0
    /\ q[1] \in DecimalDigits
    /\ q[Len(q)] \in DecimalDigits
    /\ \A i \in 1..Len(q) :
          \/ q[i] \in DecimalDigits
          \/ q[i] = "_" /\ q[i - 1] \in DecimalDigits /\ q[i + 1] \in DecimalDigits

\* The number of digits in q.
DigitCount(q) == Cardinality({i \in 1..Len(q) : q[i] \in DecimalDigits})

RECURSIVE DigitsToNat(_)
\* The value of a digit group; underscores count for nothing.
DigitsToNat(q) ==
    IF q = <<>> THEN 0
    ELSE IF q[Len(q)] = "_" THEN DigitsToNat(SubSeq(q, 1, Len(q) - 1))
    ELSE 10 * DigitsToNat(SubSeq(q, 1, Len(q) - 1)) + DigitValue(q[Len(q)])

\* q without the characters of W around it: str.strip() as int() and
\* float() apply it (W = WhitespaceChars), the whitespace the C tokenizer
\* skips around a number (W = CsvWhitespace).
Strip(q, W) == StripRight(StripLeft(q, W), W)

\* s without the sign it may start with.
DropSign(s) == IF s # <<>> /\ s[1] \in {"-", "+"} THEN Tail(s) ELSE s

\* What is left of a str once the whitespace around it and the sign before
\* it are gone.
Unsigned(q, W) == DropSign(Strip(q, W))

\* sys.get_int_max_str_digits(): int() refuses a str with more digits.
MaxStrDigits == 4300

\* int(q) of a str raises ValueError: q is no int literal, or it has more
\* than 4300 digits.
StrIntRaises(q) == ~IsDigitGroup(Unsigned(q, WhitespaceChars)) \/ DigitCount(q) > MaxStrDigits

\* int(q) of a str int() accepts.
StrIntOf(q) ==
    LET s == Strip(q, WhitespaceChars)
        n == DigitsToNat(Unsigned(q, WhitespaceChars))
    IN  IF s[1] = "-" THEN -n ELSE n

(***************************************************************************)
(* Decimal literals with a fraction or an exponent, as float() reads a     *)
(* str (py) and as the C tokenizer reads a field (not py): digits, a point *)
(* and more digits, then e or E and a signed exponent.  One of the two     *)
(* runs of digits may be missing.  Only float() takes underscores and      *)
(* digits outside ASCII.                                                   *)
(***************************************************************************)
\* The first position of q that holds a character of S, 0 if none does.
FirstIn(q, S) ==
    IF \E i \in 1..Len(q) : q[i] \in S
    THEN CHOOSE i \in 1..Len(q) : q[i] \in S /\ \A j \in 1..(i - 1) : q[j] \notin S
    ELSE 0

\* The parts of a literal: the mantissa before the first e or E and the
\* exponent after it (marked tells whether there is one), the mantissa's
\* digits before and after its first point.
Parts(u) ==
    LET Before(q, i) == IF i = 0 THEN q ELSE SubSeq(q, 1, i - 1)
        After(q, i) == IF i = 0 THEN <<>> ELSE SubSeq(q, i + 1, Len(q))
        mark == FirstIn(u, {"e", "E"})
        m == Before(u, mark)
    IN  [marked |-> mark # 0,
         mantissa |-> m,
         exponent |-> After(u, mark),
         int |-> Before(m, FirstIn(m, {"."})),
         frac |-> After(m, FirstIn(m, {"."}))]

\* u, a text without whitespace or sign around it, is a decimal literal.
IsDecimalText(u, py) ==
    LET Digits(q) == IF py THEN IsDigitGroup(q) ELSE AsciiDigits(q)
    IN  /\ Parts(u).int = <<>> \/ Digits(Parts(u).int)
        /\ Parts(u).frac = <<>> \/ Digits(Parts(u).frac)
        /\ Parts(u).int # <<>> \/ Parts(u).frac # <<>>
        /\ Parts(u).marked => Digits(DropSign(Parts(u).exponent))

\* The literal u is Coefficient(u) * 10^Power10(u).
Coefficient(u) == DigitsToNat(Parts(u).int \o Parts(u).frac)

Power10(u) ==
    LET x == Parts(u).exponent
        n == DigitsToNat(DropSign(x))
    IN  (IF x # <<>> /\ x[1] = "-" THEN -n ELSE n) - DigitCount(Parts(u).frac)

\* The words float() and the tokenizer read as infinities, and float() as
\* not-a-number, in any case of the letters.
InfWords == { <<"i", "n", "f">>, <<"i", "n", "f", "i", "n", "i", "t", "y">> }
NanWords == { <<"n", "a", "n">> }

(***************************************************************************)
(* Program constants.                                                      *)
(***************************************************************************)
expected_cols ==
    << "Country/Region", "Confirmed", "Deaths", "Recovered", "Active",
       "New cases", "New deaths", "New recovered", "Deaths / 100 Cases",
       "Recovered / 100 Cases", "Deaths / 100 Recovered",
       "Confirmed last week", "1 week change", "1 week % increase",
       "WHO Region" >>

ExpectedSet == {expected_cols[i] : i \in 1..Len(expected_cols)}

MetricOptions == <<"Confirmed", "Deaths", "Recovered", "Active">>
Metrics == {MetricOptions[i] : i \in 1..Len(MetricOptions)}

\* The characters of a metric's name, as a cell of the 'Case Type' column.
CaseType(c) ==
    CASE c = "Confirmed" -> <<"C", "o", "n", "f", "i", "r", "m", "e", "d">>
      [] c = "Deaths" -> <<"D", "e", "a", "t", "h", "s">>
      [] c = "Recovered" -> <<"R", "e", "c", "o", "v", "e", "r", "e", "d">>
      [] c = "Active" -> <<"A", "c", "t", "i", "v", "e">>

RegionValueCols == <<"Confirmed", "Deaths", "Recovered">>
RateCandidates == <<"Deaths / 100 Cases", "Recovered / 100 Cases">>

SliderMin == 5
SliderMax == 20
SliderDefault == 10
\* The slider positions the model draws: both ends, the default, and the
\* position next to the lower end.
SliderValues == {SliderMin, SliderMin + 1, SliderDefault, SliderMax}

Million == 1000000
Thousand == 1000

(***************************************************************************)
(* Sequence and number helpers.                                            *)
(***************************************************************************)
RECURSIVE SeqSum(_)
SeqSum(q) == IF q = <<>> THEN 0 ELSE Head(q) + SeqSum(Tail(q))

RECURSIVE FilterSeq(_, _)
\* The elements of q that lie in the set S, in q's order.
FilterSeq(q, S) ==
    IF q = <<>> THEN <<>>
    ELSE IF Head(q) \in S THEN <<Head(q)>> \o FilterSeq(Tail(q), S)
         ELSE FilterSeq(Tail(q), S)

RECURSIVE Concat(_)
Concat(qq) == IF qq = <<>> THEN <<>> ELSE Head(qq) \o Concat(Tail(qq))

Abs(n) == IF n < 0 THEN -n ELSE n

RECURSIVE Pow(_, _)
\* b to the power k.
Pow(b, k) == IF k = 0 THEN 1 ELSE b * Pow(b, k - 1)

RECURSIVE BitLen(_)
\* int.bit_length() of n >= 0.
BitLen(n) == IF n = 0 THEN 0 ELSE 1 + BitLen(n \div 2)

\* a/b rounded to the nearest integer, a tie to the even one (a >= 0, b > 0).
RoundHalfEven(a, b) ==
    LET q == a \div b
        r == a % b
    IN  IF 2 * r < b THEN q
        ELSE IF 2 * r > b THEN q + 1
        ELSE IF q % 2 = 0 THEN q ELSE q + 1

(***************************************************************************)
(* Doubles.  n/d as a double is the nearest one, a tie going to the even   *)
(* mantissa.                                                               *)
(***************************************************************************)
MantissaBits == 53
MaxExponent == 1024

\* The largest k with 2^k <= n/d, for n > 0.
FloorLog2(n, d) ==
    LET k == BitLen(n) - BitLen(d)
    IN  IF (IF k >= 0 THEN n >= d * Pow(2, k) ELSE n * Pow(2, -k) >= d)
        THEN k ELSE k - 1

\* The double n/d is Mantissa(n, d) * 2^Exponent(n, d).
Exponent(n, d) == FloorLog2(n, d) - (MantissaBits - 1)

Mantissa(n, d) ==
    LET e == Exponent(n, d)
    IN  IF e >= 0 THEN RoundHalfEven(n, d * Pow(2, e))
        ELSE RoundHalfEven(n * Pow(2, -e), d)

(***************************************************************************)
(* Cells.  read_csv yields a number, a missing value (NaN) or a str.  A    *)
(* number is an int or a finite double: the cell holds v / 2^e, with e = 0 *)
(* or v odd.                                                               *)
(***************************************************************************)
Num(n) == [k |-> "num", v |-> n, e |-> 0, s |-> <<>>]
NaN == [k |-> "nan", v |-> 0, e |-> 0, s |-> <<>>]
Str(q) == [k |-> "str", v |-> 0, e |-> 0, s |-> q]

RECURSIVE Flt(_, _)
\* The number m / 2^e.
Flt(m, e) ==
    IF e > 0 /\ m % 2 = 0 THEN Flt(m \div 2, e - 1)
    ELSE [k |-> "num", v |-> m, e |-> e, s |-> <<>>]

IsNum(c) == c.k = "num"
IsNaN(c) == c.k = "nan"
IsStr(c) == c.k = "str"

\* The numerator of a number over the denominator 2^e, for e >= c.e.
Scaled(c, e) == c.v * Pow(2, e - c.e)

\* a < b for two numbers.
NumLess(a, b) == Scaled(a, a.e + b.e) < Scaled(b, a.e + b.e)

\* int(x) of a number: the fraction is cut off.
Truncated(c) ==
    IF c.v < 0 THEN -((-c.v) \div Pow(2, c.e)) ELSE c.v \div Pow(2, c.e)

\* a < b for two cells of one column: numbers by value, strs by code point.
CellLess(a, b) ==
    IF IsNum(a) /\ IsNum(b) THEN NumLess(a, b)
    ELSE IsStr(a) /\ IsStr(b) /\ StrLess(a.s, b.s)

\* sum() over the cells of a numeric column or group: the numbers are
\* added, missing values skipped.  The sum is exact when the magnitudes
\* together fit a mantissa, whatever the order in which numpy adds them;
\* where a partial sum could be rounded the model says nothing.
SumNums(cells) ==
    LET nums == SelectSeq(cells, IsNum)
        scales == {nums[i].e : i \in 1..Len(nums)} \cup {0}
        e == CHOOSE x \in scales : \A y \in scales : y <= x
        parts == [i \in 1..Len(nums) |-> Scaled(nums[i], e)]
    IN  CASE BitLen(SeqSum([i \in 1..Len(parts) |-> Abs(parts[i])])) <= MantissaBits
             -> Flt(SeqSum(parts), e)

(***************************************************************************)
(* The number a decimal literal stands for.  The tokenizer reads up to 17  *)
(* digits into a double and scales it by a power of ten, float() rounds    *)
(* the exact value: with at most 15 digits and a power of ten of at most   *)
(* 22 both give the double nearest to the literal's value.                 *)
(***************************************************************************)
MaxDigits == 15
MaxPower10 == 22

\* The digits of 2^64 - 1, the largest integer read_csv stores as a number.
MaxUInt64Digits == 20

\* The double nearest to c * 10^p, for c >= 0.
DecimalDouble(c, p) ==
    IF c = 0 THEN Num(0)
    ELSE IF p >= 0
    THEN IF BitLen(c * Pow(10, p)) <= MantissaBits THEN Num(c * Pow(10, p))
         ELSE Num(Mantissa(c * Pow(10, p), 1) * Pow(2, Exponent(c * Pow(10, p), 1)))
    ELSE IF c % Pow(5, -p) = 0 THEN Flt(c \div Pow(5, -p), -p)
    ELSE IF Exponent(c, Pow(10, -p)) >= 0
    THEN Num(Mantissa(c, Pow(10, -p)) * Pow(2, Exponent(c, Pow(10, -p))))
    ELSE Flt(Mantissa(c, Pow(10, -p)), -Exponent(c, Pow(10, -p)))

\* The number the decimal literal q stands for, whitespace and sign
\* included.
TextNumber(q, py) ==
    LET s == IF py THEN Strip(q, WhitespaceChars) ELSE Strip(q, CsvWhitespace)
        u == DropSign(s)
        x == DecimalDouble(Coefficient(u), Power10(u))
    IN  CASE /\ DigitCount(Parts(u).mantissa) <= MaxDigits
             /\ DigitCount(Parts(u).exponent) <= MaxDigits
             /\ Abs(Power10(u)) <= MaxPower10
             -> IF s[1] = "-" THEN [x EXCEPT !.v = -x.v] ELSE x

(***************************************************************************)
(* Files, tables and dtypes.  A file is a header and rows of fields.  The  *)
(* field Num(n) is the text str(n), NaN is the empty field, Str(q) is the  *)
(* text q.                                                                 *)
(***************************************************************************)
NoTable == [cols |-> {}, rows |-> <<>>]

NoFile == [exists |-> FALSE, error |-> "none", cols |-> {}, rows |-> <<>>]
File(t) == [exists |-> TRUE, error |-> "none", cols |-> t.cols, rows |-> t.rows]

\* A file read_csv cannot parse: e is the exception it raises ("none" for
\* a file it parses).
Unreadable(e) == [exists |-> TRUE, error |-> e, cols |-> {}, rows |-> <<>>]

ReadErrors == {"EmptyDataError", "ParserError", "UnicodeDecodeError"}

\* The fields read_csv takes for a missing value (its default na_values).
NaValues ==
    { <<>>, <<"#", "N", "/", "A">>, <<"#", "N", "/", "A", " ", "N", "/", "A">>,
      <<"#", "N", "A">>, <<"-", "1", ".", "#", "I", "N", "D">>,
      <<"-", "1", ".", "#", "Q", "N", "A", "N">>, <<"-", "N", "a", "N">>,
      <<"-", "n", "a", "n">>, <<"1", ".", "#", "I", "N", "D">>,
      <<"1", ".", "#", "Q", "N", "A", "N">>, <<"<", "N", "A", ">">>,
      <<"N", "/", "A">>, <<"N", "A">>, <<"N", "U", "L", "L">>, <<"N", "a", "N">>,
      <<"N", "o", "n", "e">>, <<"n", "/", "a">>, <<"n", "a", "n">>,
      <<"n", "u", "l", "l">> }

\* The fields read_csv takes for booleans.
BoolWords ==
    { <<"T", "r", "u", "e">>, <<"T", "R", "U", "E">>, <<"t", "r", "u", "e">>,
      <<"F", "a", "l", "s", "e">>, <<"F", "A", "L", "S", "E">>,
      <<"f", "a", "l", "s", "e">> }

\* What the tokenizer takes the text of a field for, tried in this order.
\* An integer is ASCII digits behind an optional sign, whitespace around
\* them: one of at most 15 digits fits int64, one of more than 20 digits
\* after its leading zeros fits neither int64 nor uint64 ("bigint"); the
\* integers between are outside the model.
TextKind(q) ==
    LET u == Unsigned(q, CsvWhitespace)
        first == FirstIn(u, DigitSet \ {"0"})
        significant == IF first = 0 THEN 0 ELSE Len(u) - first + 1
    IN  IF q \in NaValues THEN "na"
        ELSE IF AsciiDigits(u)
        THEN CASE Len(u) <= MaxDigits -> "int"
               [] Len(u) > MaxDigits /\ significant > MaxUInt64Digits -> "bigint"
        ELSE IF IsDecimalText(u, FALSE) THEN "float"
        ELSE IF DropSign(LowerStr(q)) \in InfWords THEN "inf"
        ELSE IF q \in BoolWords THEN "bool"
        ELSE "text"

FieldKind(cell) ==
    IF IsNum(cell) THEN "int" ELSE IF IsNaN(cell) THEN "na" ELSE TextKind(cell.s)

\* The dtype read_csv gives a column.  It tries int64, float64 and bool on
\* all the fields that are not missing and leaves the column as object,
\* text as it stands, when none fits or an integer overflows; without rows
\* every column is object.  Columns of booleans, columns with an infinity
\* and columns that mix an overflowing integer with a fraction are outside
\* the model.
ColumnDtype(file, c) ==
    LET K == {FieldKind(file.rows[i][c]) : i \in 1..Len(file.rows)} \ {"na"}
    IN  CASE Len(file.rows) = 0 -> "object"
          [] Len(file.rows) > 0 /\ K \subseteq {"int", "float"} -> "number"
          [] /\ Len(file.rows) > 0
             /\ \/ ~(K \subseteq {"int", "bigint", "float", "inf"}) /\ K # {"bool"}
                \/ "bigint" \in K /\ K \subseteq {"int", "bigint"}
                -> "object"

\* The cell of a field in a column of the given dtype: a missing value, the
\* field's number, or in an object column its text as it stands.
ReadField(cell, dtype) ==
    IF FieldKind(cell) = "na" THEN NaN
    ELSE IF dtype = "object"
    THEN Str(IF IsNum(cell) THEN IntToStr(cell.v) ELSE cell.s)
    ELSE IF IsNum(cell)
    THEN CASE Len(NatToStr(Abs(cell.v))) <= MaxDigits -> cell
    ELSE TextNumber(cell.s, FALSE)

\* pd.read_csv(file), where it returns.
ReadCsv(file) ==
    LET dtype == [c \in file.cols |-> ColumnDtype(file, c)]
    IN  [cols |-> file.cols,
         rows |-> [i \in 1..Len(file.rows) |->
                     [c \in file.cols |-> ReadField(file.rows[i][c], dtype[c])]]]

HasStr(t, col) == \E i \in 1..Len(t.rows) : IsStr(t.rows[i][col])

\* The dtype of a column of a frame: numeric when the frame has a row and
\* every cell of the column is a number or missing; a column with a str
\* cell, and every column of a frame without rows, is object.
IsNumericDtype(t, col) ==
    /\ col \in t.cols
    /\ Len(t.rows) > 0
    /\ ~HasStr(t, col)

\* df.select_dtypes(include=[np.number]).columns
NumericCols(t) == {col \in t.cols : IsNumericDtype(t, col)}

\* pd.to_numeric(x, errors='coerce') on one cell: a str that is a decimal
\* literal for the tokenizer becomes its number, any other str a missing
\* value.  A str that spells an infinity is outside the model.
ToNumericCoerce(c) ==
    CASE ~IsStr(c) -> c
      [] IsStr(c) /\ IsDecimalText(Unsigned(c.s, CsvWhitespace), FALSE) -> TextNumber(c.s, FALSE)
      [] /\ IsStr(c)
         /\ ~IsDecimalText(Unsigned(c.s, CsvWhitespace), FALSE)
         /\ DropSign(LowerStr(c.s)) \notin InfWords
            -> NaN

(***************************************************************************)
(* The inputs of format_number: a Python int, a finite float (given in     *)
(* tenths), an infinite float, float('nan'), None, a str, or an int whose  *)
(* quotient by 1,000,000 lies beyond the largest float (10**400, say).     *)
(***************************************************************************)
PyInt(n) == [kind |-> "int", n |-> n, chars |-> <<>>]
PyFloat(tenths) == [kind |-> "float", n |-> tenths, chars |-> <<>>]
PyInf(sign) == [kind |-> "inf", n |-> sign, chars |-> <<>>]
PyNaN == [kind |-> "nan", n |-> 0, chars |-> <<>>]
PyNone == [kind |-> "none", n |-> 0, chars |-> <<>>]
PyStr(q) == [kind |-> "str", n |-> 0, chars |-> q]
PyHuge(sign) == [kind |-> "huge", n |-> sign, chars |-> <<>>]

\* Whether int(num) raises (ValueError, TypeError, OverflowError), which the
\* except clause of format_number catches.
IntRaises(num) ==
    CASE num.kind \in {"int", "float", "huge"} -> FALSE
      [] num.kind = "str" -> StrIntRaises(num.chars)
      [] OTHER -> TRUE

\* int(num) where it does not raise: a float is truncated toward zero, a
\* str is parsed as a signed decimal.
IntOf(num) ==
    CASE num.kind = "int" -> num.n
      [] num.kind = "float" ->
            IF num.n < 0 THEN -((-num.n) \div 10) ELSE num.n \div 10
      [] num.kind = "str" -> StrIntOf(num.chars)

\* str(num) of an input for which int(num) raised.
StrOf(num) ==
    CASE num.kind = "nan" -> <<"n", "a", "n">>
      [] num.kind = "none" -> <<"N", "o", "n", "e">>
      [] num.kind = "inf" ->
            (IF num.n < 0 THEN <<"-">> ELSE <<>>) \o <<"i", "n", "f">>
      [] OTHER -> num.chars

(***************************************************************************)
(* f'{n/d:.1f}' for ints n and d > 0.  n/d is the double nearest to the    *)
(* quotient, a tie going to the even mantissa; the format rounds the       *)
(* double's exact value to one decimal, half to even.                      *)
(***************************************************************************)
\* n/d raises OverflowError: the double would be 2^1024 or more.
DivisionOverflows(n, d) ==
    /\ BitLen(n) > MaxExponent
    /\ Mantissa(n, d) * Pow(2, Exponent(n, d)) >= Pow(2, MaxExponent)

\* The tenths of the double n/d, from its mantissa and exponent.
DoubleTenths(n, d) ==
    LET e == Exponent(n, d)
        m == Mantissa(n, d)
    IN  IF e >= 0 THEN 10 * m * Pow(2, e)
        ELSE RoundHalfEven(10 * m, Pow(2, -e))

RECURSIVE DivideBits(_, _, _, _)
\* Long division of n by d to 53 significant bits: on which side of the
\* quotient the double lies.  r/d is what remains of the quotient below the
\* last bit produced, sig the significant bits produced so far, last the
\* last bit.
DivideBits(r, d, sig, last) ==
    IF r = 0 THEN "exact"
    ELSE IF sig = MantissaBits
         THEN IF 2 * r < d THEN "below"
              ELSE IF 2 * r > d THEN "above"
              ELSE IF last = 0 THEN "below" ELSE "above"
         ELSE LET bit == (2 * r) \div d
                  rest == (2 * r) % d
              IN  DivideBits(rest, d,
                             IF sig > 0 \/ bit = 1 THEN sig + 1 ELSE 0, bit)

\* The tenths of the double n/d where the double lies nearer to the quotient
\* than the quotient can lie to a point halfway between two tenths without
\* being on it: the double rounds as the quotient does, and on such a point
\* as its side of the quotient tells.
NearTenths(n, d) ==
    LET t == (10 * n) \div d
        rem == (10 * n) % d
    IN  IF 2 * rem < d THEN t
        ELSE IF 2 * rem > d THEN t + 1
        ELSE LET side == DivideBits(n % d, d, BitLen(n \div d), (n \div d) % 2)
             IN  IF side = "below" THEN t
                 ELSE IF side = "above" THEN t + 1
                 ELSE IF t % 2 = 0 THEN t ELSE t + 1

\* The number of tenths f'{n/d:.1f}' shows, for n >= 0.  Half an ulp of the
\* double is below 1/(20 d) when 10 d 2^k < 2^52 for 2^k <= n/d.
Tenths(n, d) ==
    IF n = 0 THEN 0
    ELSE IF BitLen(10 * d) + BitLen(n \div d) <= MantissaBits
    THEN NearTenths(n, d)
    ELSE DoubleTenths(n, d)

OneDecimal(n, d) ==
    LET t == Tenths(Abs(n), d)
    IN  (IF n < 0 THEN <<"-">> ELSE <<>>)
        \o NatToStr(t \div 10) \o <<".">> \o <<DigitChar(t % 10)>>

\* format_number(num) raises OverflowError at line 59: the division is
\* outside the try block.
FormatRaises(num) ==
    /\ ~IntRaises(num)
    /\ \/ num.kind = "huge"
       \/ /\ Abs(IntOf(num)) >= Million
          /\ DivisionOverflows(Abs(IntOf(num)), Million)

\* Lines 53-63, where format_number returns.
format_number(num) ==
    IF IntRaises(num) THEN StrOf(num)
    ELSE LET n == IntOf(num)
         IN  IF Abs(n) >= Million THEN OneDecimal(n, Million) \o <<"M">>
             ELSE IF Abs(n) >= Thousand THEN OneDecimal(n, Thousand) \o <<"k">>
             ELSE IntToStr(n)

(***************************************************************************)
(* pandas operations on tables.                                            *)
(***************************************************************************)
\* Series.sum() of a numeric column: missing values are skipped.
ColumnSum(t, col) == SumNums([i \in 1..Len(t.rows) |-> t.rows[i][col]])

\* The strs of an object column, one after the other.
ColumnText(t, col) ==
    Concat([i \in 1..Len(t.rows) |->
               IF IsStr(t.rows[i][col]) THEN t.rows[i][col].s ELSE <<>>])

\* How int(df[col].sum()) ends.  The sum of an object column is the
\* concatenation of its strs, and int() of it raises ValueError unless the
\* text is an int literal of at most 4300 digits.  With a missing cell among the strs the sum adds
\* a number to a str and raises TypeError, unless the pandas build skips the
\* cell.
SumOutcomes(t, col) ==
    IF col \notin t.cols \/ ~HasStr(t, col) THEN {"none"}
    ELSE {IF StrIntRaises(ColumnText(t, col)) THEN "ValueError" ELSE "none"}
         \cup (IF \E i \in 1..Len(t.rows) : IsNaN(t.rows[i][col])
               THEN {"TypeError"} ELSE {})

\* int(df[col].sum()) if col in df.columns else 0, where it does not raise:
\* int() cuts the fraction of a sum of floats off.
total_of(t, col) ==
    IF col \notin t.cols THEN 0
    ELSE IF HasStr(t, col) THEN StrIntOf(ColumnText(t, col))
    ELSE Truncated(ColumnSum(t, col))

RECURSIVE SortCells(_)
\* The cells of S in ascending order.
SortCells(S) ==
    IF S = {} THEN <<>>
    ELSE LET least == CHOOSE a \in S : \A b \in S : ~CellLess(b, a)
         IN  <<least>> \o SortCells(S \ {least})

\* The keys of df.groupby(key): the distinct values of the key column,
\* sorted; rows whose key is missing form no group (dropna=True).
GroupKeys(t, key) ==
    SortCells({t.rows[i][key] : i \in {j \in 1..Len(t.rows) : ~IsNaN(t.rows[j][key])}})

\* GroupSum without the restriction to the group's rows.
GroupSum_all_rows(t, key, g, col) == ColumnSum(t, col)

\* The rows of group g, in row order.
GroupRows(t, key, g) == SelectSeq(t.rows, LAMBDA r : r[key] = g)

\* The sum of a numeric column over the rows of group g.
GroupSum(t, key, g, col) ==
    SumNums([i \in 1..Len(GroupRows(t, key, g)) |-> GroupRows(t, key, g)[i][col]])

\* One cell of the aggregate: groupby sums skip missing values; an object
\* column sums to the concatenation of the group's strs, to 0 without any.
GroupCell(t, key, g, col) ==
    LET rows == GroupRows(t, key, g)
        strs == SelectSeq([i \in 1..Len(rows) |-> rows[i][col]], IsStr)
    IN  IF strs # <<>> THEN Str(Concat([i \in 1..Len(strs) |-> strs[i].s]))
        ELSE GroupSum(t, key, g, col)

\* df.groupby(key)[valcols].sum().reset_index()
GroupBySum(t, key, valcols) ==
    LET keys == GroupKeys(t, key)
        vals == {valcols[i] : i \in 1..Len(valcols)}
    IN  [cols |-> {key} \cup vals,
         rows |-> [i \in 1..Len(keys) |->
                     [c \in {key} \cup vals |->
                        IF c = key THEN keys[i]
                        ELSE GroupCell(t, key, keys[i], c)]]]

LongCols(id) == {id, "Case Type", "Total Cases"}

\* Melt taking every value from the first value column.
Melt_first_value(t, id, vars) ==
    [cols |-> LongCols(id),
     rows |-> Concat([j \in 1..Len(vars) |->
                 [i \in 1..Len(t.rows) |->
                    [c \in LongCols(id) |->
                       IF c = id THEN t.rows[i][id]
                       ELSE IF c = "Case Type" THEN Str(CaseType(vars[j]))
                       ELSE t.rows[i][vars[1]]]]])]

\* t.melt(id_vars=id, value_vars=vars, var_name='Case Type',
\*        value_name='Total Cases'): the rows of t once per value column,
\* value column by value column.
Melt(t, id, vars) ==
    [cols |-> LongCols(id),
     rows |-> Concat([j \in 1..Len(vars) |->
                 [i \in 1..Len(t.rows) |->
                    [c \in LongCols(id) |->
                       IF c = id THEN t.rows[i][id]
                       ELSE IF c = "Case Type" THEN Str(CaseType(vars[j]))
                       ELSE t.rows[i][vars[j]]]]])]

\* Row i ranks before row j in a descending order of col that keeps equal
\* values in row order and puts missing values last.
RanksBefore(t, col, i, j) ==
    LET a == t.rows[i][col]
        b == t.rows[j][col]
    IN  IF IsNaN(a) THEN IsNaN(b) /\ i < j
        ELSE IsNaN(b) \/ CellLess(b, a) \/ (~CellLess(a, b) /\ i < j)

RECURSIVE RankRows(_, _, _)
\* The rows of S in the descending order a stable sort gives
\* (argsort(kind='mergesort')).
RankRows(t, col, S) ==
    IF S = {} THEN <<>>
    ELSE LET first == CHOOSE i \in S : \A j \in S \ {i} : RanksBefore(t, col, i, j)
         IN  <<first>> \o RankRows(t, col, S \ {first})

RECURSIVE OrdersOf(_, _, _)
\* The orders of the rows of S a descending sort of col may give.  First
\* comes a row with the largest value; the first row of S when all its
\* values are missing.
OrdersOf(t, col, S) ==
    LET present == {i \in S : ~IsNaN(t.rows[i][col])}
        firsts == IF present = {}
                  THEN {i \in S : \A j \in S : i <= j}
                  ELSE {i \in present :
                           \A j \in present : ~CellLess(t.rows[i][col], t.rows[j][col])}
    IN  IF S = {} THEN {<<>>}
        ELSE UNION {{<<i>> \o rest : rest \in OrdersOf(t, col, S \ {i})} :
                      i \in firsts}

\* sort_values(col, ascending=False): the row positions in sorted order.
\* pandas sorts with kind='quicksort', which need not be stable: equal
\* values come in any order, missing values last in row order.
DescendingOrders(t, col) == OrdersOf(t, col, 1..Len(t.rows))

\* df.nlargest(n, col), keep='first': the positions of the selected rows.
\* With n below the number of rows pandas selects with a stable sort; else
\* it returns sort_values(ascending=False).head(n).
NLargestOrders(t, n, col) ==
    IF n >= Len(t.rows) THEN DescendingOrders(t, col)
    ELSE {SubSeq(RankRows(t, col, 1..Len(t.rows)), 1, n)}

Take(t, index) ==
    [cols |-> t.cols, rows |-> [i \in 1..Len(index) |-> t.rows[index[i]]],
     index |-> index]

NoSelection == [cols |-> {}, rows |-> <<>>, index |-> <<>>]

\* The sorted frames of the rate charts, one order per rate column.
RECURSIVE RateOrders(_, _)
RateOrders(t, cols) ==
    IF cols = <<>> THEN {<<>>}
    ELSE {<<o>> \o rest : o \in DescendingOrders(t, Head(cols)),
                          rest \in RateOrders(t, Tail(cols))}

(***************************************************************************)
(* Plotting calls, as far as they can end the pass.                        *)
(***************************************************************************)
\* What float(q) makes of a str, as far as a pie chart cares: "invalid"
\* when it raises ValueError, else not-a-number, an infinity, zero, or a
\* finite number by its sign.  A literal of more than 15 digits or with a
\* power of ten beyond 22 is outside the model unless all its digits are 0.
FloatKind(q) ==
    LET s == Strip(q, WhitespaceChars)
        u == DropSign(s)
        neg == s # <<>> /\ s[1] = "-"
        m == Parts(u).mantissa
    IN  IF LowerStr(u) \in NanWords THEN "nan"
        ELSE IF LowerStr(u) \in InfWords THEN (IF neg THEN "neg" ELSE "inf")
        ELSE IF ~IsDecimalText(u, TRUE) THEN "invalid"
        ELSE IF \A i \in 1..Len(m) : m[i] \in DecimalDigits => DigitValue(m[i]) = 0
        THEN "zero"
        ELSE CASE /\ DigitCount(m) <= MaxDigits
                  /\ DigitCount(Parts(u).exponent) <= MaxDigits
                  /\ Abs(Power10(u)) <= MaxPower10
                  -> IF neg THEN "neg" ELSE "pos"

\* ax.pie(cells).  The values are converted to floats, a str by float()
\* (ValueError for a str that is no number); a negative value is rejected
\* with ValueError; the values are divided by their sum, and with a sum of
\* zero, not-a-number or infinity the wedges are NaN, which some matplotlib
\* versions draw as nothing and others reject with ValueError.
PieOutcomes(cells) ==
    LET Kind(c) == IF IsStr(c) THEN FloatKind(c.s)
                   ELSE IF IsNaN(c) THEN "nan"
                   ELSE IF c.v < 0 THEN "neg"
                   ELSE IF c.v = 0 THEN "zero"
                   ELSE "pos"
        kinds == {Kind(cells[i]) : i \in 1..Len(cells)}
    IN  IF "invalid" \in kinds \/ "neg" \in kinds THEN {"ValueError"}
        ELSE IF "nan" \in kinds \/ "inf" \in kinds \/ "pos" \notin kinds
        THEN {"none", "ValueError"}
        ELSE {"none"}

\* sns.barplot / sns.boxplot of the columns a and b of a frame.  A frame
\* without rows gives no colours to choose from: seaborn up to 0.12 raises
\* ValueError, later versions draw nothing.  With a str in both columns
\* neither is numeric and seaborn raises TypeError.
SeabornOutcomes(t, a, b) ==
    IF Len(t.rows) = 0 THEN {"none", "ValueError"}
    ELSE IF HasStr(t, a) /\ HasStr(t, b) THEN {"TypeError"}
    ELSE {"none"}

(***************************************************************************)
(* The files a pass may find.  A cell of these tables is a field of the    *)
(* file.                                                                   *)
(***************************************************************************)
CountryNames ==
    << <<"C", "h", "a", "d">>, <<"C", "u", "b", "a">>, <<"F", "i", "j", "i">>,
       <<"I", "r", "a", "n">>, <<"I", "r", "a", "q">>, <<"M", "a", "l", "i">>,
       <<"O", "m", "a", "n">>, <<"P", "e", "r", "u">> >>

\* Africa, Americas, Europe, Eastern Mediterranean, Western Pacific.
RegionNames ==
    << <<"A", "f", "r", "i", "c", "a">>,
       <<"A", "m", "e", "r", "i", "c", "a", "s">>,
       <<"E", "u", "r", "o", "p", "e">>,
       <<"E", "a", "s", "t", "e", "r", "n", " ",
         "M", "e", "d", "i", "t", "e", "r", "r", "a", "n", "e", "a", "n">>,
       <<"W", "e", "s", "t", "e", "r", "n", " ", "P", "a", "c", "i", "f", "i", "c">> >>

\* Row i of a well-formed dataset: every expected column, numbers in the
\* numeric columns.
BaseRow(i) ==
    [c \in ExpectedSet |->
        CASE c = "Country/Region" -> Str(CountryNames[i])
          [] c = "WHO Region" -> Str(RegionNames[((i - 1) % 3) + 1])
          [] c = "Confirmed" -> Num(10 * i)
          [] c = "Deaths" -> Num(i)
          [] c = "Recovered" -> Num(2 * i + 1)
          [] c = "Active" -> Num(7 * i - 1)
          [] c = "Deaths / 100 Cases" -> Num(i)
          [] c = "Recovered / 100 Cases" -> Num(9 - i)
          [] OTHER -> Num(0)]

BaseRows == <<BaseRow(1), BaseRow(2)>>

Project(rows, cols) ==
    [cols |-> cols,
     rows |-> [i \in 1..Len(rows) |-> [c \in cols |-> rows[i][c]]]]

LocalTable == Project(BaseRows, ExpectedSet)

\* Every expected column; the counts and the regions vary, missing values
\* included.
DataTable(n, c, g) ==
    [cols |-> ExpectedSet,
     rows |-> [i \in 1..n |->
                 [BaseRow(i) EXCEPT !["Confirmed"] = c[i],
                                    !["Deaths"] = c[(i % n) + 1],
                                    !["Recovered"] = Num(i),
                                    !["WHO Region"] = g[i]]]]

DataFamily ==
    UNION {{DataTable(n, c, g) :
               c \in [1..n -> {Num(2), NaN}],
               g \in [1..n -> {Str(RegionNames[1]), Str(RegionNames[3]), NaN}]} :
             n \in 0..MaxRows}

\* More rows than the smallest slider position; equal and missing values
\* in two of the metric columns.
RankingTable(v) ==
    [cols |-> ExpectedSet,
     rows |-> [i \in 1..TopRows |->
                 [BaseRow(i) EXCEPT !["Confirmed"] = v[i],
                                    !["Deaths"] = v[TopRows + 1 - i],
                                    !["Recovered"] = Num(i)]]]

RankingFamily == {RankingTable(v) : v \in [1..TopRows -> {Num(1), Num(2), NaN}]}

\* Well-formed rows, or none, under a header that lacks up to MaxAbsent of
\* the expected columns or keeps at most MaxPresent of them.
ColumnSets ==
    {ExpectedSet \ A : A \in {B \in SUBSET ExpectedSet : Cardinality(B) <= MaxAbsent}}
    \cup {P \in SUBSET ExpectedSet : Cardinality(P) \in 1..MaxPresent}

ColumnFamily ==
    {Project(rows, cols) : rows \in {<<>>, BaseRows}, cols \in ColumnSets}

\* A field of a count column that read_csv takes for no number: letters,
\* or digits grouped with an underscore.
TextFields == { <<"a", "b", "c">>, <<"1", "_", "0">> }

\* Such a field alone or beside an empty field, with and without the
\* Active column.
TextTable(col, text, pos, other, absent) ==
    LET rows == [i \in 1..2 |->
                    [BaseRow(i) EXCEPT ![col] =
                        IF i = pos THEN Str(text)
                        ELSE IF other = "nan" THEN NaN ELSE @]]
    IN  Project(rows, ExpectedSet \ absent)

TextFamily ==
    {TextTable(col, text, pos, other, absent) :
        col \in Metrics, text \in TextFields, pos \in 1..2,
        other \in {"num", "nan"}, absent \in {{}, {"Active"}}}

\* Well-formed rows with the fields f in the column col.
FieldTable(col, f) ==
    [cols |-> ExpectedSet,
     rows |-> [i \in 1..Len(f) |-> [BaseRow(i) EXCEPT ![col] = f[i]]]]

\* Regions by other names, and regions given as numbers.
RegionColumns ==
    { <<Str(RegionNames[5]), Str(RegionNames[3]), Str(RegionNames[4])>>,
      <<Num(2), Num(1), NaN>> }

\* Fields that read_csv takes for a missing value, a padded integer, a
\* fraction, a number with an exponent; text beside a missing value.
FieldColumns ==
    { << Str(<<"N", "A">>), Num(5) >>,
      << Str(<<" ", "1", "2">>), Num(5) >>,
      << Str(<<"1", ".", "5">>), Num(5) >>,
      << Str(<<"2", ".", "5", "e", "1">>), Str(<<"n", "/", "a">>) >>,
      << Str(<<"a", "b", "c">>), Str(<<"N", "U", "L", "L">>) >> }

\* Counts that are text, for a table whose regions are numbers.
CodedCounts ==
    { << Str(<<"1", "_", "0">>), Str(<<"2", "_", "0">>) >>,
      << Str(<<"7">>), Str(<<"1", "_", "0">>) >>,
      << Str(<<"1", "_">>), Str(<<"0">>) >> }

\* One digit more than int() accepts in a str.
LongDigits == [i \in 1..(MaxStrDigits + 1) |-> "1"]

\* Tables with such columns; a table with counts below zero; one with a
\* count of too many digits.
FieldFamily ==
    {FieldTable(col, f) : col \in {"Confirmed", "Deaths / 100 Cases"},
                          f \in FieldColumns}
    \cup {FieldTable("WHO Region", g) : g \in RegionColumns}
    \cup {[cols |-> ExpectedSet,
           rows |-> [i \in 1..Len(c) |->
                       [BaseRow(i) EXCEPT !["WHO Region"] = Num(3 - i),
                                          !["Confirmed"] = c[i]]]] :
             c \in CodedCounts}
    \cup {FieldTable("Confirmed", <<Num(-10), Num(-30)>>),
          FieldTable("Confirmed", <<Str(LongDigits), Num(5)>>)}

UploadTables == DataFamily \cup ColumnFamily \cup TextFamily \cup FieldFamily

\* The uploads a user leaves in the uploader between two passes.
NextUploads == {NoFile, File(LocalTable)}

(***************************************************************************)
(* State.                                                                  *)
(***************************************************************************)
VARIABLES
    uploaded_file,        \* the file in the sidebar uploader, if any
    local_file,           \* country_wise_latest.csv in the working directory, if any
    local_read,           \* whether this pass tried to read the local file
    df,                   \* the loaded table
    missing,              \* expected columns absent from df
    msgs,                 \* st.error / st.warning / st.info calls of this pass
    totals,               \* total_confirmed, total_deaths, total_recovered, total_active
    kpi,                  \* the four formatted totals of the metric row
    summary_df,
    region_cases,
    region_cases_melted,
    rate_cols,
    rate_ranked,          \* per rate column, the row positions sorted for its chart
    region_total_cases,
    metric,
    top_n,
    top_countries,
    melt_cols,
    df_melted,
    numerical_cols,       \* the columns of numerical_df
    corr_cols,            \* the columns of the correlation matrix, once computed
    charts,               \* the figures handed to st.pyplot in this pass
    executed,             \* the stages this pass has run, in order
    raised,               \* the exception that ended the pass, or "none"
    pc,                   \* the stage the pass is at
    fmt_in,               \* an argument of format_number
    fmt_out               \* what format_number returned for it

files == <<uploaded_file, local_file>>
frames == <<region_cases, region_cases_melted, rate_cols, rate_ranked,
            region_total_cases>>
topvars == <<metric, top_n, top_countries>>
boxvars == <<melt_cols, df_melted>>
corrvars == <<numerical_cols, corr_cols>>
totvars == <<totals, kpi, summary_df>>
fmtvars == <<fmt_in, fmt_out>>
vars == <<uploaded_file, local_file, local_read, df, missing, msgs, totals,
          kpi, summary_df, region_cases, region_cases_melted, rate_cols,
          rate_ranked, region_total_cases, metric, top_n, top_countries,
          melt_cols, df_melted, numerical_cols, corr_cols, charts, executed,
          raised, pc, fmt_in, fmt_out>>

NoTotals == [c \in Metrics |-> 0]

\* The values every pass starts from.
PassStart ==
    /\ local_read = FALSE
    /\ df = NoTable
    /\ missing = <<>>
    /\ msgs = {}
    /\ totals = NoTotals
    /\ kpi = <<>>
    /\ summary_df = <<>>
    /\ region_cases = NoTable
    /\ region_cases_melted = NoTable
    /\ rate_cols = <<>>
    /\ rate_ranked = <<>>
    /\ region_total_cases = NoTable
    /\ metric = ""
    /\ top_n = 0
    /\ top_countries = NoSelection
    /\ melt_cols = <<>>
    /\ df_melted = NoTable
    /\ numerical_cols = {}
    /\ corr_cols = {}
    /\ charts = {}
    /\ executed = <<>>
    /\ raised = "none"
    /\ pc = "load"

(***************************************************************************)
(* The stages of a pass.                                                   *)
(***************************************************************************)
\* pd.read_csv(file) at line 27 or 30: the table, or the exception, which
\* nothing catches.
Read(file) ==
    IF file.error = "none"
    THEN /\ df' = ReadCsv(file)
         /\ pc' = "validate"
         /\ UNCHANGED raised
    ELSE /\ raised' = file.error
         /\ pc' = "raised"
         /\ UNCHANGED df

\* Load without st.stop(): the pass goes on with no table.
Load_without_stop ==
    /\ pc = "load"
    /\ executed' = Append(executed, "load")
    /\ IF uploaded_file.exists
       THEN /\ Read(uploaded_file)
            /\ UNCHANGED <<local_read, msgs>>
       ELSE /\ local_read' = TRUE
            /\ IF local_file.exists
               THEN /\ Read(local_file)
                    /\ UNCHANGED msgs
               ELSE /\ msgs' = msgs \cup {"error: No local CSV found"}
                    /\ pc' = "validate"
                    /\ UNCHANGED <<df, raised>>
    /\ UNCHANGED <<files, missing, totvars, frames, topvars, boxvars, corrvars,
                   charts, fmtvars>>

\* Lines 25-33: the uploaded file if there is one, else the local file; with
\* neither, st.error and st.stop().
Load ==
    /\ pc = "load"
    /\ executed' = Append(executed, "load")
    /\ IF uploaded_file.exists
       THEN /\ Read(uploaded_file)
            /\ UNCHANGED <<local_read, msgs>>
       ELSE /\ local_read' = TRUE
            /\ IF local_file.exists
               THEN /\ Read(local_file)
                    /\ UNCHANGED msgs
               ELSE /\ msgs' = msgs \cup {"error: No local CSV found"}
                    /\ pc' = "stopped"
                    /\ UNCHANGED <<df, raised>>
    /\ UNCHANGED <<files, missing, totvars, frames, topvars, boxvars, corrvars,
                   charts, fmtvars>>

\* Lines 38-44.
Validate ==
    /\ pc = "validate"
    /\ executed' = Append(executed, "validate")
    /\ missing' = FilterSeq(expected_cols, ExpectedSet \ df.cols)
    /\ msgs' = IF missing' # <<>>
               THEN msgs \cup {"warning: missing expected columns"}
               ELSE msgs
    /\ pc' = "coerce"
    /\ UNCHANGED <<files, local_read, df, totvars, frames, topvars, boxvars,
                   corrvars, charts, raised, fmtvars>>

\* Lines 47-48: to_numeric over the columns that are numeric already.
CoerceColumns(t) ==
    [cols |-> t.cols,
     rows |-> [i \in 1..Len(t.rows) |->
                 [c \in t.cols |->
                    IF c \in NumericCols(t) THEN ToNumericCoerce(t.rows[i][c])
                    ELSE t.rows[i][c]]]]

Coerce ==
    /\ pc = "coerce"
    /\ executed' = Append(executed, "coerce")
    /\ df' = CoerceColumns(df)
    /\ pc' = "totals"
    /\ UNCHANGED <<files, local_read, missing, msgs, totvars, frames, topvars,
                   boxvars, corrvars, charts, raised, fmtvars>>

\* The total columns whose sum ended in an exception, in the order of lines
\* 65-68, given how each sum ended.
RaisingTotals(outcome) == FilterSeq(MetricOptions, {c \in Metrics : outcome[c] # "none"})

\* Lines 65-74.  The first sum that raises ends the pass; so does a total
\* too large for format_number to divide.
Totals ==
    /\ pc = "totals"
    /\ executed' = Append(executed, "totals")
    /\ \E outcome \in [Metrics -> {"none", "ValueError", "TypeError"}] :
          /\ \A c \in Metrics : outcome[c] \in SumOutcomes(df, c)
          /\ IF RaisingTotals(outcome) # <<>>
             THEN /\ raised' = outcome[Head(RaisingTotals(outcome))]
                  /\ pc' = "raised"
                  /\ UNCHANGED <<totals, kpi>>
             ELSE /\ totals' = [c \in Metrics |-> total_of(df, c)]
                  /\ IF \E c \in Metrics : FormatRaises(PyInt(totals'[c]))
                     THEN /\ raised' = "OverflowError"
                          /\ pc' = "raised"
                          /\ UNCHANGED kpi
                     ELSE /\ kpi' = [i \in 1..Len(MetricOptions) |->
                                       format_number(PyInt(totals'[MetricOptions[i]]))]
                          /\ pc' = "summary"
                          /\ UNCHANGED raised
    /\ UNCHANGED <<files, local_read, df, missing, msgs, summary_df, frames,
                   topvars, boxvars, corrvars, charts, fmtvars>>

\* Lines 81-116.  The totals were formatted once already at lines 71-74.
Summary ==
    /\ pc = "summary"
    /\ executed' = Append(executed, "summary")
    /\ summary_df' = [i \in 1..Len(MetricOptions) |->
                        [Category |-> MetricOptions[i],
                         Total |-> totals[MetricOptions[i]],
                         Formatted |-> format_number(PyInt(totals[MetricOptions[i]]))]]
    /\ \E e \in PieOutcomes([i \in 1..Len(MetricOptions) |->
                               Num(totals[MetricOptions[i]])]) :
          /\ raised' = e
          /\ IF e = "none"
             THEN /\ charts' = charts \cup {"summary pie", "summary bar"}
                  /\ pc' = "region"
             ELSE /\ pc' = "raised"
                  /\ UNCHANGED charts
    /\ UNCHANGED <<files, local_read, df, missing, msgs, totals, kpi, frames,
                   topvars, boxvars, corrvars, fmtvars>>

\* Lines 123-139.  Selecting a column the table lacks raises KeyError.
Region ==
    /\ pc = "region"
    /\ executed' = Append(executed, "region")
    /\ IF "WHO Region" \notin df.cols
       THEN /\ pc' = "topn"
            /\ UNCHANGED <<region_cases, region_cases_melted, charts, raised>>
       ELSE IF \E i \in 1..Len(RegionValueCols) : RegionValueCols[i] \notin df.cols
       THEN /\ raised' = "KeyError"
            /\ pc' = "raised"
            /\ UNCHANGED <<region_cases, region_cases_melted, charts>>
       ELSE /\ region_cases' = GroupBySum(df, "WHO Region", RegionValueCols)
            /\ region_cases_melted' =
                  Melt(GroupBySum(df, "WHO Region", RegionValueCols),
                       "WHO Region", RegionValueCols)
            /\ \E e \in SeabornOutcomes(
                           Melt(GroupBySum(df, "WHO Region", RegionValueCols),
                                "WHO Region", RegionValueCols),
                           "WHO Region", "Total Cases") :
                  /\ raised' = e
                  /\ IF e = "none"
                     THEN /\ charts' = charts \cup {"region bar"}
                          /\ pc' = "rates"
                     ELSE /\ pc' = "raised"
                          /\ UNCHANGED charts
    /\ UNCHANGED <<files, local_read, df, missing, msgs, totvars, rate_cols,
                   rate_ranked, region_total_cases, topvars, boxvars, corrvars,
                   fmtvars>>

\* How the rate charts end: the first chart that raises ends the pass.
RateChartOutcomes(t, cols) ==
    IF Len(t.rows) = 0 THEN {"none", "ValueError"}
    ELSE IF \E i \in 1..Len(cols) : SeabornOutcomes(t, cols[i], "WHO Region") # {"none"}
    THEN {"TypeError"}
    ELSE {"none"}

\* Lines 142-160, inside the WHO Region branch.
Rates ==
    /\ pc = "rates"
    /\ executed' = Append(executed, "rates")
    /\ rate_cols' = FilterSeq(RateCandidates, df.cols)
    /\ IF rate_cols' # <<>>
       THEN /\ rate_ranked' \in RateOrders(df, rate_cols')
            /\ \E e \in RateChartOutcomes(df, rate_cols') :
                  /\ raised' = e
                  /\ IF e = "none"
                     THEN /\ charts' = charts \cup {"rates"}
                          /\ pc' = "region_pie"
                     ELSE /\ pc' = "raised"
                          /\ UNCHANGED charts
            /\ UNCHANGED msgs
       ELSE /\ msgs' = msgs \cup {"info: No regional rate columns found"}
            /\ pc' = "region_pie"
            /\ UNCHANGED <<rate_ranked, charts, raised>>
    /\ UNCHANGED <<files, local_read, df, missing, totvars, region_cases,
                   region_cases_melted, region_total_cases, topvars, boxvars,
                   corrvars, fmtvars>>

\* Lines 163-173, inside the WHO Region branch.
RegionPie ==
    /\ pc = "region_pie"
    /\ executed' = Append(executed, "region_pie")
    /\ region_total_cases' = region_cases
    /\ \E e \in PieOutcomes([k \in 1..Len(region_cases.rows) |->
                               region_cases.rows[k]["Confirmed"]]) :
          /\ raised' = e
          /\ IF e = "none"
             THEN /\ charts' = charts \cup {"region pie"}
                  /\ pc' = "topn"
             ELSE /\ pc' = "raised"
                  /\ UNCHANGED charts
    /\ UNCHANGED <<files, local_read, df, missing, msgs, totvars, region_cases,
                   region_cases_melted, rate_cols, rate_ranked, topvars, boxvars,
                   corrvars, fmtvars>>

\* How the bar plot of the selection ends: it looks 'Country/Region' up in
\* the selection and raises ValueError when the table lacks it.
TopChartOutcomes(sel, m) ==
    IF "Country/Region" \notin sel.cols THEN {"ValueError"}
    ELSE SeabornOutcomes(sel, m, "Country/Region")

\* Lines 180-197.  The widgets return the user's current choice.
TopN ==
    /\ pc = "topn"
    /\ executed' = Append(executed, "topn")
    /\ \E m \in Metrics, n \in SliderValues :
          /\ metric' = m
          /\ top_n' = n
          /\ IF m \notin df.cols
             THEN /\ msgs' = msgs \cup {"warning: Metric not found"}
                  /\ pc' = "boxplot"
                  /\ UNCHANGED <<top_countries, charts, raised>>
             ELSE IF ~IsNumericDtype(df, m)
             THEN /\ raised' = "TypeError"
                  /\ pc' = "raised"
                  /\ UNCHANGED <<top_countries, charts, msgs>>
             ELSE /\ \E index \in NLargestOrders(df, n, m) :
                        /\ top_countries' = Take(df, index)
                        /\ \E e \in TopChartOutcomes(Take(df, index), m) :
                              /\ raised' = e
                              /\ IF e = "none"
                                 THEN /\ charts' = charts \cup {"top countries"}
                                      /\ pc' = "boxplot"
                                 ELSE /\ pc' = "raised"
                                      /\ UNCHANGED charts
                  /\ UNCHANGED msgs
    /\ UNCHANGED <<files, local_read, df, missing, totvars, frames, boxvars,
                   corrvars, fmtvars>>

\* Lines 204-219.
Boxplot ==
    /\ pc = "boxplot"
    /\ executed' = Append(executed, "boxplot")
    /\ IF "WHO Region" \in df.cols
       THEN /\ melt_cols' = FilterSeq(MetricOptions, df.cols)
            /\ IF melt_cols' # <<>>
               THEN /\ df_melted' = Melt(df, "WHO Region", melt_cols')
                    /\ \E e \in SeabornOutcomes(Melt(df, "WHO Region", melt_cols'),
                                                "WHO Region", "Total Cases") :
                          /\ raised' = e
                          /\ IF e = "none"
                             THEN /\ charts' = charts \cup {"box"}
                                  /\ pc' = "corr"
                             ELSE /\ pc' = "raised"
                                  /\ UNCHANGED charts
               ELSE /\ pc' = "corr"
                    /\ UNCHANGED <<df_melted, charts, raised>>
       ELSE /\ pc' = "corr"
            /\ UNCHANGED <<melt_cols, df_melted, charts, raised>>
    /\ UNCHANGED <<files, local_read, df, missing, msgs, totvars, frames,
                   topvars, corrvars, fmtvars>>

\* Lines 226-239.  With fewer than two numeric columns nothing is shown.
Correlation ==
    /\ pc = "corr"
    /\ executed' = Append(executed, "corr")
    /\ numerical_cols' = NumericCols(df)
    /\ IF Cardinality(numerical_cols') >= 2
       THEN /\ corr_cols' = numerical_cols'
            /\ charts' = charts \cup {"heatmap"}
       ELSE UNCHANGED <<corr_cols, charts>>
    /\ pc' = "conclusion"
    /\ UNCHANGED <<files, local_read, df, missing, msgs, totvars, frames,
                   topvars, boxvars, raised, fmtvars>>

\* Lines 241-258.
Conclusion ==
    /\ pc = "conclusion"
    /\ executed' = Append(executed, "conclusion")
    /\ pc' = "done"
    /\ UNCHANGED <<files, local_read, df, missing, msgs, totvars, frames,
                   topvars, boxvars, corrvars, charts, raised, fmtvars>>

\* Streamlit runs the script again on an interaction, be the pass at its
\* end or under way (it is then abandoned where it stands); every value of
\* the pass is computed anew.  The uploader is a widget, read anew at line
\* 25: the user may have removed the upload or put another file in its
\* place.  The script does not write the local file.
Rerun ==
    /\ pc \notin {"format", "formatted"}
    /\ uploaded_file' \in {uploaded_file} \cup NextUploads
    /\ local_read' = FALSE
    /\ df' = NoTable
    /\ missing' = <<>>
    /\ msgs' = {}
    /\ totals' = NoTotals
    /\ kpi' = <<>>
    /\ summary_df' = <<>>
    /\ region_cases' = NoTable
    /\ region_cases_melted' = NoTable
    /\ rate_cols' = <<>>
    /\ rate_ranked' = <<>>
    /\ region_total_cases' = NoTable
    /\ metric' = ""
    /\ top_n' = 0
    /\ top_countries' = NoSelection
    /\ melt_cols' = <<>>
    /\ df_melted' = NoTable
    /\ numerical_cols' = {}
    /\ corr_cols' = {}
    /\ charts' = {}
    /\ executed' = <<>>
    /\ raised' = "none"
    /\ pc' = "load"
    /\ UNCHANGED <<local_file, fmtvars>>

(***************************************************************************)
(* The render pass.                                                        *)
(***************************************************************************)
Init ==
    /\ uploaded_file \in {NoFile} \cup {File(t) : t \in UploadTables}
                             \cup {Unreadable(e) : e \in ReadErrors}
    /\ local_file \in {NoFile, File(LocalTable), Unreadable("EmptyDataError")}
    /\ local_file.error # "none" => uploaded_file \in NextUploads
    /\ PassStart
    /\ fmt_in = PyNone
    /\ fmt_out = <<>>

Next ==
    \/ Load
    \/ Validate
    \/ Coerce
    \/ Totals
    \/ Summary
    \/ Region
    \/ Rates
    \/ RegionPie
    \/ TopN
    \/ Boxplot
    \/ Correlation
    \/ Conclusion
    \/ Rerun

Spec == Init /\ [][Next]_vars

\* The same pass over uploads with more rows than the slider's lowest
\* positions.
InitRanking ==
    /\ uploaded_file \in {File(t) : t \in RankingFamily}
    /\ local_file = NoFile
    /\ PassStart
    /\ fmt_in = PyNone
    /\ fmt_out = <<>>

SpecRanking == InitRanking /\ [][Next]_vars

(***************************************************************************)
(* format_number on its own: one call per behaviour.                       *)
(***************************************************************************)
FormatInts ==
    {sgn * (a * u + o) : sgn \in {-1, 1}, a \in 0..MaxAnchor,
                         u \in {1, 50, 1000, 50000, 250000},
                         o \in {-50, -1, 0, 1, 50}}

FormatFloats ==
    {sgn * (10 * (50 * a) + f) : sgn \in {-1, 1}, a \in 0..MaxAnchor, f \in {5, 9}}

FormatStrings ==
    { <<"a", "b", "c">>, <<>>, <<"1", "5", "0", "0">>, <<"-", "1", "5", "0", "0">>,
      <<"+", "7">>, <<"1", ".", "5">>, <<"1", "2", "a">>, <<"-">>,
      <<" ", "1", "2">>, <<"1", "2", " ">>, <<"\n", "7">>, <<"\t", "-", "7", "U+00A0">>,
      <<"1", "_", "0", "0", "0">>, <<"1", "_", "_", "0">>, <<"_", "1">>, <<"1", "_">>,
      <<"-", " ", "1">>, <<"+", "-", "1">>, <<" ">>, <<"0", "0", "7">>,
      <<"U+0663">>, <<"1", "U+0665", "0", "0">>, LongDigits }

FormatInputs ==
    {PyInt(n) : n \in FormatInts} \cup {PyFloat(x) : x \in FormatFloats}
    \cup {PyStr(q) : q \in FormatStrings}
    \cup {PyNaN, PyNone, PyInf(1), PyInf(-1), PyHuge(1), PyHuge(-1)}

InitFormat ==
    /\ uploaded_file = NoFile
    /\ local_file = NoFile
    /\ local_read = FALSE
    /\ df = NoTable
    /\ missing = <<>>
    /\ msgs = {}
    /\ totals = NoTotals
    /\ kpi = <<>>
    /\ summary_df = <<>>
    /\ region_cases = NoTable
    /\ region_cases_melted = NoTable
    /\ rate_cols = <<>>
    /\ rate_ranked = <<>>
    /\ region_total_cases = NoTable
    /\ metric = ""
    /\ top_n = 0
    /\ top_countries = NoSelection
    /\ melt_cols = <<>>
    /\ df_melted = NoTable
    /\ numerical_cols = {}
    /\ corr_cols = {}
    /\ charts = {}
    /\ executed = <<>>
    /\ raised = "none"
    /\ pc = "format"
    /\ fmt_in \in FormatInputs
    /\ fmt_out = <<>>

\* One call of format_number: it returns, or the exception leaves it.
ApplyFormat ==
    /\ pc = "format"
    /\ IF FormatRaises(fmt_in)
       THEN /\ raised' = "OverflowError"
            /\ pc' = "raised"
            /\ UNCHANGED fmt_out
       ELSE /\ fmt_out' = format_number(fmt_in)
            /\ pc' = "formatted"
            /\ UNCHANGED raised
    /\ UNCHANGED <<files, local_read, df, missing, msgs, totvars, frames,
                   topvars, boxvars, corrvars, charts, executed, fmt_in>>

SpecFormat == InitFormat /\ [][ApplyFormat]_vars

(***************************************************************************)
(* Properties.                                                             *)
(***************************************************************************)
Ran(stage) == \E i \in 1..Len(executed) : executed[i] = stage

LastStage == IF executed = <<>> THEN "" ELSE executed[Len(executed)]

RowSet(t) == 1..Len(t.rows)

\* The table has a row, no cell of it is missing, and only the two name
\* columns hold strs.
CompleteRows(t) ==
    /\ Len(t.rows) > 0
    /\ \A c \in t.cols : \A i \in RowSet(t) :
          /\ ~IsNaN(t.rows[i][c])
          /\ IsStr(t.rows[i][c]) <=> c \in {"Country/Region", "WHO Region"}

\* The region aggregate of this pass exists and its chart was drawn.
RegionComputed == pc = "rates" \/ Ran("rates")

\* The Top-N selection of this pass exists.
TopNSelected == top_countries # NoSelection

\* The cells of a column in the rows of S, in row order.
Pick(t, col, S) ==
    LET index == FilterSeq([i \in 1..Len(t.rows) |-> i], S)
    IN  [k \in 1..Len(index) |-> t.rows[index[k]][col]]

\* What summing cells gives: strs one after the other if there is a str,
\* else the sum of the numbers.
SumCells(cells) ==
    IF \E i \in 1..Len(cells) : IsStr(cells[i])
    THEN Str(Concat([i \in 1..Len(cells) |->
                        IF IsStr(cells[i]) THEN cells[i].s ELSE <<>>]))
    ELSE SumNums(cells)

SumOver(t, col, S) == SumCells(Pick(t, col, S))

\* Summing a long frame by region and case type.
Reaggregate(long, g, type) ==
    SumOver(long, "Total Cases",
            {i \in RowSet(long) : /\ long.rows[i]["WHO Region"] = g
                                  /\ long.rows[i]["Case Type"] = Str(CaseType(type))})

RegionValueSet == {RegionValueCols[i] : i \in 1..Len(RegionValueCols)}

\* The stages the claim about absent columns names.
PipelineStages == {"totals", "region", "rates", "topn", "boxplot", "corr"}

\* C1: whatever expected columns a table of complete rows lacks, no
\* exception raised in the totals, region, rate, Top-N, box-plot or
\* correlation stage ends the pass before the later stages have run.
C1_AbsentColumnsTolerated ==
    (df # NoTable /\ CompleteRows(df)) => ~(pc = "raised" /\ LastStage \in PipelineStages)

\* C2: with no upload and no local file the pass shows the error and stops
\* before any later stage; with an upload the table comes from the upload
\* and the local file is not read (an upload read_csv cannot parse ends the
\* pass in the load stage, the local file not read either).
C2_MissingFileHalts ==
    /\ (pc # "load" /\ ~uploaded_file.exists /\ ~local_file.exists) =>
          /\ pc = "stopped"
          /\ "error: No local CSV found" \in msgs
          /\ executed = <<"load">>
          /\ df = NoTable
          /\ charts = {}
          /\ totals = NoTotals
          /\ region_cases = NoTable
          /\ top_countries = NoSelection
          /\ df_melted = NoTable
          /\ corr_cols = {}
    /\ (pc # "load" /\ uploaded_file.exists) =>
          /\ local_read = FALSE
          /\ pc # "stopped"
          /\ IF uploaded_file.error = "none"
             THEN df = ReadCsv(uploaded_file)
             ELSE /\ pc = "raised"
                  /\ raised = uploaded_file.error
                  /\ executed = <<"load">>
                  /\ df = NoTable

\* C2: a pass with neither file has stopped after the load stage.
C2_Witness ==
    /\ pc = "stopped"
    /\ ~uploaded_file.exists
    /\ ~local_file.exists
    /\ executed = <<"load">>

\* q is the decimal string of a number of tenths t, with a minus sign
\* exactly when neg.
IsTenthsString(q, t, neg) ==
    LET body == IF neg THEN Tail(q) ELSE q
        n == Len(body)
    IN  /\ neg => (Len(q) > 0 /\ q[1] = "-")
        /\ n >= 3
        /\ body[n - 1] = "."
        /\ AsciiDigits(SubSeq(body, 1, n - 2))
        /\ body[n] \in DigitSet
        /\ (n > 3 => body[1] # "0")
        /\ 10 * DigitsToNat(SubSeq(body, 1, n - 2)) + DigitValue(body[n]) = t

\* q shows n/d to one decimal: a number of tenths nearest to n/d.
ShowsOneDecimal(q, n, d) ==
    \E t \in ((10 * Abs(n)) \div d)..((10 * Abs(n)) \div d + 1) :
        /\ 2 * Abs(t * d - 10 * Abs(n)) <= d
        /\ IsTenthsString(q, t, n < 0)

Front(q) == SubSeq(q, 1, Len(q) - 1)
Last(q) == q[Len(q)]

\* C3: format_number raises for no input; an input int() rejects comes
\* back as its string; otherwise a value of 1,000,000 or more shows as
\* value/1e6 to one decimal and "M", else a value of 1,000 or more as
\* value/1e3 to one decimal and "k", else as the plain integer string.
\* The value of a negative input is read as its magnitude, as the code
\* reads it.
C3_FormatNeverRaises ==
    pc # "format" =>
        /\ raised = "none"
        /\ IF IntRaises(fmt_in) THEN fmt_out = StrOf(fmt_in)
           ELSE LET n == IntOf(fmt_in)
                IN  IF Abs(n) >= Million
                    THEN Last(fmt_out) = "M" /\ ShowsOneDecimal(Front(fmt_out), n, Million)
                    ELSE IF Abs(n) >= Thousand
                    THEN Last(fmt_out) = "k" /\ ShowsOneDecimal(Front(fmt_out), n, Thousand)
                    ELSE fmt_out = IntToStr(n)

Min2(a, b) == IF a <= b THEN a ELSE b

\* a ranks at least as high as b: missing values rank lowest.
AtLeast(a, b) == IsNaN(b) \/ (IsNum(a) /\ IsNum(b) /\ ~NumLess(a, b))
SameRank(a, b) == (IsNaN(a) /\ IsNaN(b)) \/ (IsNum(a) /\ IsNum(b) /\ a = b)

\* C4: the Top-N selection has min(N, rows) rows, in descending order of
\* the metric, none below an excluded row, equal values in row order.
C4_TopNSelection ==
    TopNSelected =>
        LET idx == top_countries.index
            sel == {idx[i] : i \in 1..Len(idx)}
            cell(i) == df.rows[i][metric]
        IN  /\ Len(idx) = Min2(top_n, Len(df.rows))
            /\ sel \subseteq RowSet(df)
            /\ Cardinality(sel) = Len(idx)
            /\ top_countries.rows = [i \in 1..Len(idx) |-> df.rows[idx[i]]]
            /\ \A i, j \in 1..Len(idx) : i < j => AtLeast(cell(idx[i]), cell(idx[j]))
            /\ \A i \in sel : \A j \in RowSet(df) \ sel : AtLeast(cell(i), cell(j))
            /\ \A i, j \in 1..Len(idx) :
                  (i < j /\ SameRank(cell(idx[i]), cell(idx[j]))) => idx[i] < idx[j]
            /\ \A i \in sel : \A j \in RowSet(df) \ sel :
                  SameRank(cell(i), cell(j)) => i < j

\* C5: in a table with rows, none without a region, the region aggregate's
\* Confirmed values add up to total_confirmed.
C5_RegionSumsEqualTotal ==
    (/\ RegionComputed
     /\ Len(df.rows) > 0
     /\ \A i \in RowSet(df) : ~IsNaN(df.rows[i]["WHO Region"])) =>
        SumOver(region_cases, "Confirmed", RowSet(region_cases))
            = Num(totals["Confirmed"])

\* C6 as stated: a row without a region is kept in a group of its own, so
\* every row lies in exactly one group of the region aggregate.
C6_MissingRegionKept ==
    RegionComputed =>
        \A i \in RowSet(df) :
            Cardinality({k \in RowSet(region_cases) :
                            region_cases.rows[k]["WHO Region"] = df.rows[i]["WHO Region"]}) = 1

\* C6, amended: a row without a region lies in no group and adds to no
\* group's sums; every row with a region lies in exactly one group, and a
\* group's sums are those of its rows.
C6_MissingRegionDropped ==
    RegionComputed =>
        /\ \A k \in RowSet(region_cases) : ~IsNaN(region_cases.rows[k]["WHO Region"])
        /\ \A i \in RowSet(df) :
              Cardinality({k \in RowSet(region_cases) :
                              region_cases.rows[k]["WHO Region"] = df.rows[i]["WHO Region"]})
                 = IF IsNaN(df.rows[i]["WHO Region"]) THEN 0 ELSE 1
        /\ \A c \in RegionValueSet :
              /\ ~HasStr(df, c) =>
                    SumOver(region_cases, c, RowSet(region_cases))
                       = SumOver(df, c, {i \in RowSet(df) : ~IsNaN(df.rows[i]["WHO Region"])})
              /\ \A k \in RowSet(region_cases) :
                    region_cases.rows[k][c] =
                       SumOver(df, c, {i \in RowSet(df) :
                          df.rows[i]["WHO Region"] = region_cases.rows[k]["WHO Region"]})

\* C6: a row without a region, with a Confirmed value, beside two groups.
C6_Witness ==
    /\ RegionComputed
    /\ Len(region_cases.rows) = 2
    /\ \E i \in RowSet(df) :
          IsNaN(df.rows[i]["WHO Region"]) /\ IsNum(df.rows[i]["Confirmed"])

\* C7: a count cell that is no number is missing once coercion has run,
\* adds nothing to its column's total, and the totals stage does not raise.
C7_CoercionToMissing ==
    /\ Ran("coerce") =>
          \A c \in Metrics \cap df.cols : \A i \in RowSet(df) : ~IsStr(df.rows[i][c])
    /\ ~(pc = "raised" /\ LastStage = "totals")
    /\ Ran("summary") =>
          \A c \in Metrics \cap df.cols : totals[c] = Truncated(ColumnSum(df, c))

StageMessages ==
    {"error: No local CSV found", "warning: missing expected columns",
     "info: No regional rate columns found", "warning: Metric not found"}

\* C8: with fewer than two numeric columns the correlation stage reports the
\* condition and shows no heatmap; with two or more it computes the matrix
\* and shows the heatmap.
C8_InsufficientDataReported ==
    Ran("corr") =>
        IF Cardinality(NumericCols(df)) < 2
        THEN "heatmap" \notin charts /\ msgs \ StageMessages # {}
        ELSE "heatmap" \in charts /\ corr_cols = NumericCols(df)

\* C9: a table with every expected column but Active gives total_active 0,
\* the missing-columns warning naming Active, the metric warning in place
\* of the Top-N chart when Active is selected, and no exception.
C9_NoActiveColumn ==
    (df # NoTable /\ df.cols = ExpectedSet \ {"Active"}) =>
        /\ raised = "none"
        /\ Ran("validate") =>
              /\ missing = <<"Active">>
              /\ "warning: missing expected columns" \in msgs
        /\ Ran("totals") => totals["Active"] = 0
        /\ (Ran("topn") /\ metric = "Active") =>
              /\ "warning: Metric not found" \in msgs
              /\ top_countries = NoSelection
              /\ "top countries" \notin charts

\* C10: summing either long frame by region and case type gives back the
\* region aggregate, for Confirmed, Deaths and Recovered.
C10_MeltRoundTrip ==
    RegionComputed =>
        \A k \in RowSet(region_cases) : \A c \in RegionValueSet :
            LET g == region_cases.rows[k]["WHO Region"]
            IN  /\ Reaggregate(region_cases_melted, g, c) = region_cases.rows[k][c]
                /\ df_melted # NoTable =>
                      Reaggregate(df_melted, g, c) = region_cases.rows[k][c]

\* C10: both long frames exist, for a table with a missing region and a missing count.
C10_Witness ==
    /\ RegionComputed
    /\ pc = "corr"
    /\ Len(region_cases.rows) = 2
    /\ Len(df.rows) = 3
    /\ Len(df_melted.rows) = 12
    /\ \E i \in RowSet(df) : IsNaN(df.rows[i]["WHO Region"])
    /\ \E i \in RowSet(df) : IsNaN(df.rows[i]["Confirmed"])

=============================================================================
